---- MODULE Spec2Model ----
(***************************************************************************)
(* State-machine model of the task/group management server (src/index.js). *)
(* The three collections User, Group and Task are the shared state; every  *)
(* route handler is one action per storage round trip it awaits, so that   *)
(* concurrent requests interleave exactly where the code yields.           *)
(***************************************************************************)
EXTENDS Integers, FiniteSets, Sequences, TLC

VARIABLES users, groups, tasks, nextTaskId, now, served, inflight, resp, load

vars == <<users, groups, tasks, nextTaskId, now, served, inflight, resp, load>>

(* ------------------------------ bounds --------------------------------- *)
\* Requests accepted in one behaviour (sent concurrently, or one after
\* another), and requests in flight at once.
MaxRequests == 3
MaxSerialRequests == 5
MaxTasks == 2
NProcs == 2

Procs == 1..NProcs

(* ------------------------------ inputs --------------------------------- *)
Usernames == {"ana", "bob"}
Emails == {"a@x.com", "b@x.com"}
RegisterPasswords == {"p1"}
LoginPasswords == {"p1", "p2"}
Salts == {"s1"}

GroupInputs ==
    {[name |-> "g1", createdBy |-> 1, members |-> {1}],
     [name |-> "g2", createdBy |-> 1, members |-> {2}]}

Null == 0
UserIds == 1..(Cardinality(Usernames) + 1)
GroupIds == 1..(Cardinality(GroupInputs) + 1)
TaskIds == {1, 2}

\* A JSON value of a request body, as far as the role checks tell them apart.
JNum(n) == [t |-> "number", n |-> n]
JStr(n) == [t |-> "string", n |-> n]
JUndefined == [t |-> "undefined", n |-> 0]
RoleInputs == {JNum(1), JNum(2), JNum(3), JStr(1), JUndefined}
RegisterRoleInputs == {JUndefined, JNum(1)}

\* Request bodies of POST /tasks (all fields) and PUT /tasks/:taskId (any
\* subset of fields, possibly with lastUpdated or a path the schema lacks).
TaskInputs ==
    {[name |-> "n1", description |-> "d1", dueDate |-> 1, category |-> "c1",
      status |-> "todo", group |-> g, assignedTo |-> Null, createdBy |-> 1] :
        g \in {Null, 1}}
TaskUpdates ==
    {[status |-> "done"],
     [name |-> "n2", group |-> 2, lastUpdated |-> 0, extra |-> "x"]}

(* ------------------------------ schemas -------------------------------- *)
ROLE_ADMIN == 1
ROLE_USER == 2
BCRYPT_ROUNDS == 10

\* bcrypt.hash(password, 10): salted, one-way; bcrypt.compare checks a
\* plaintext against the hash it was derived with.
BcryptHash(password, salt) ==
    [alg |-> "bcrypt", rounds |-> BCRYPT_ROUNDS, salt |-> salt, of |-> password]

BcryptCompare(password, hash) == hash = BcryptHash(password, hash.salt)

\* taskSchema: the paths a Task document has; strict mode drops any other.
TaskPaths ==
    {"name", "description", "dueDate", "category", "status", "group",
     "assignedTo", "createdBy", "lastUpdated"}

\* Variant: the unique index on username is missing.
UniqueUserViolationEmailOnly(doc) ==
    \E i \in DOMAIN users : users[i].email = doc.email

\* userSchema: username and email carry unique indexes.
UniqueUserViolation(doc) ==
    \E i \in DOMAIN users :
        users[i].username = doc.username \/ users[i].email = doc.email

\* groupSchema: name carries a unique index.
UniqueGroupViolation(doc) ==
    \E i \in DOMAIN groups : groups[i].name = doc.name

\* Variant: the email lookup filters on the username path.
FindUserByEmailAsUsername(email) == {i \in DOMAIN users : users[i].username = email}

\* User.findOne({ username }) / User.findOne({ email }) / Group.findOne({ name })
FindUserByUsername(username) == {i \in DOMAIN users : users[i].username = username}

FindUserByEmail(email) == {i \in DOMAIN users : users[i].email = email}

FindGroupByName(name) == {i \in DOMAIN groups : groups[i].name = name}

\* Variant: the groups a user created instead of the groups listing the user.
FindGroupsByCreator(userId) == {g \in DOMAIN groups : groups[g].createdBy = userId}

\* Group.find({ members: userId }) and Task.find({ group: ... })
FindGroupsByMember(userId) == {g \in DOMAIN groups : userId \in groups[g].members}

FindTasksByGroupIn(groupIds) == {t \in DOMAIN tasks : tasks[t].group \in groupIds}

FindAllTasks == DOMAIN tasks

\* .populate(path, 'username' / 'name'): a reference becomes the display
\* projection of the document it names, or null when there is none.
NoRef == [id |-> Null, label |-> ""]
PopulateUser(id) ==
    IF id \in DOMAIN users THEN [id |-> id, label |-> users[id].username] ELSE NoRef
PopulateGroup(id) ==
    IF id \in DOMAIN groups THEN [id |-> id, label |-> groups[id].name] ELSE NoRef
PopulateTask(t) ==
    [id |-> t,
     doc |-> [tasks[t] EXCEPT !.group = PopulateGroup(tasks[t].group),
                              !.assignedTo = PopulateUser(tasks[t].assignedTo),
                              !.createdBy = PopulateUser(tasks[t].createdBy)]]
PopulateTasks(ids) == {PopulateTask(t) : t \in ids}
PopulateGroupDoc(g) ==
    [id |-> g, name |-> groups[g].name,
     createdBy |-> PopulateUser(groups[g].createdBy),
     members |-> {PopulateUser(m) : m \in groups[g].members} \ {NoRef}]
LeanGroup(g) ==
    [id |-> g, name |-> groups[g].name, createdBy |-> groups[g].createdBy,
     members |-> groups[g].members]
\* projection { password: 0 } / select: '-password'
WithoutPassword(i) ==
    [id |-> i, username |-> users[i].username, email |-> users[i].email,
     role |-> users[i].role]

(* ----------------------------- responses ------------------------------- *)
NoResp == [route |-> "", status |-> 0, success |-> FALSE, message |-> "", data |-> <<>>]

Json(route, status, success, message, data) ==
    [route |-> route, status |-> status, success |-> success,
     message |-> message, data |-> data]

Idle == [op |-> "idle", pc |-> "", args |-> <<>>, loc |-> <<>>]

IsIdle(p) == inflight[p].op = "idle"

Busy == \E p \in Procs : ~IsIdle(p)

\* The clients send a bounded number of requests, either concurrently or
\* each one after the response to the one before (load.serial).
AcceptAtomic ==
    /\ served < load.requests
    /\ load.serial => ~Busy

\* A handler that awaits more than once runs on the first free slot.
Accept(p) ==
    /\ AcceptAtomic
    /\ IsIdle(p)
    /\ \A q \in Procs : q < p => ~IsIdle(q)

(* ------------------------------- Init ---------------------------------- *)
Init ==
    /\ users = <<>>
    /\ groups = <<>>
    /\ tasks = <<>>
    /\ nextTaskId = 1
    /\ now = 1
    /\ served = 0
    /\ inflight = [p \in Procs |-> Idle]
    /\ resp = NoResp
    /\ load = [requests |-> MaxRequests, serial |-> FALSE]

InitSerial ==
    /\ users = <<>>
    /\ groups = <<>>
    /\ tasks = <<>>
    /\ nextTaskId = 1
    /\ now = 1
    /\ served = 0
    /\ inflight = [p \in Procs |-> Idle]
    /\ resp = NoResp
    /\ load = [requests |-> MaxSerialRequests, serial |-> TRUE]

\* new Date(): a reading of the wall clock, never before the last reading.
ClockReadings == {now, now + 1}

(* -------------------------- POST /register ----------------------------- *)
\* const { username, email, password } = req.body;  (a role in the body is
\* not read)
\* const existingUserByUsername = await User.findOne({ username });
RegisterFindUsername(p, username, email, password, role) ==
    /\ Accept(p)
    /\ served' = served + 1
    /\ IF FindUserByUsername(username) # {}
       THEN /\ resp' = Json("register", 400, FALSE, "El nombre de usuario ya esta en uso", <<>>)
            /\ UNCHANGED inflight
       ELSE /\ inflight' = [inflight EXCEPT ![p] =
                    [op |-> "register", pc |-> "findEmail",
                     args |-> [username |-> username, email |-> email,
                               password |-> password],
                     loc |-> <<>>]]
            /\ resp' = NoResp
    /\ UNCHANGED <<users, groups, tasks, nextTaskId, now, load>>

\* const existingUserByEmail = await User.findOne({ email });
RegisterFindEmail(p) ==
    /\ inflight[p].op = "register" /\ inflight[p].pc = "findEmail"
    /\ IF FindUserByEmail(inflight[p].args.email) # {}
       THEN /\ resp' = Json("register", 400, FALSE, "El correo electronico ya esta en uso", <<>>)
            /\ inflight' = [inflight EXCEPT ![p] = Idle]
       ELSE /\ inflight' = [inflight EXCEPT ![p].pc = "save"]
            /\ resp' = NoResp
    /\ UNCHANGED <<users, groups, tasks, nextTaskId, now, served, load>>

\* Variant: the new user is stored as an administrator.
NewUserAsAdmin(args, salt) ==
    [username |-> args.username, email |-> args.email,
     password |-> BcryptHash(args.password, salt), role |-> ROLE_ADMIN]

\* new User({ username, email, password: hashedPassword, role: 2 })
NewUser(args, salt) ==
    [username |-> args.username, email |-> args.email,
     password |-> BcryptHash(args.password, salt), role |-> ROLE_USER]

\* newUser.save(): the insert, refused by a unique index on a duplicate key.
InsertUser(doc) ==
    IF UniqueUserViolation(doc) THEN users ELSE Append(users, doc)

\* await bcrypt.hash(password, 10); await newUser.save();
RegisterSave(p) ==
    /\ inflight[p].op = "register" /\ inflight[p].pc = "save"
    /\ \E salt \in Salts :
         LET doc == NewUser(inflight[p].args, salt) IN
         /\ users' = InsertUser(doc)
         /\ resp' = IF UniqueUserViolation(doc)
                    THEN Json("register", 500, FALSE, "Error al registrar usuario", <<>>)
                    ELSE Json("register", 200, TRUE, "Usuario registrado exitosamente", <<>>)
    /\ inflight' = [inflight EXCEPT ![p] = Idle]
    /\ UNCHANGED <<groups, tasks, nextTaskId, now, served, load>>

Register ==
    \/ \E p \in Procs, username \in Usernames, email \in Emails,
          password \in RegisterPasswords, role \in RegisterRoleInputs :
          RegisterFindUsername(p, username, email, password, role)
    \/ \E p \in Procs : RegisterFindEmail(p)
    \/ \E p \in Procs : RegisterSave(p)

(* ------------------- POST /auth/login, /auth/logout -------------------- *)
LoginResponse(username, password) ==
    LET found == FindUserByUsername(username) IN
    IF found = {}
    THEN Json("login", 400, FALSE, "Usuario no encontrado", <<>>)
    ELSE LET user == users[CHOOSE i \in found : TRUE] IN
         IF ~BcryptCompare(password, user.password)
         THEN Json("login", 400, FALSE, "Contrasena incorrecta", <<>>)
         ELSE Json("login", 200, TRUE, "Inicio de sesion exitoso", user)

Login(username, password) ==
    /\ AcceptAtomic
    /\ served' = served + 1
    /\ resp' = LoginResponse(username, password)
    /\ UNCHANGED <<users, groups, tasks, nextTaskId, now, inflight, load>>

Logout ==
    /\ AcceptAtomic
    /\ served' = served + 1
    /\ resp' = Json("logout", 200, TRUE, "Sesion cerrada exitosamente", <<>>)
    /\ UNCHANGED <<users, groups, tasks, nextTaskId, now, inflight, load>>

(* ------------------ GET /users, PUT /users/:userId/role ---------------- *)
GetUsers ==
    /\ AcceptAtomic
    /\ served' = served + 1
    /\ resp' = Json("getUsers", 200, TRUE, "", {WithoutPassword(i) : i \in DOMAIN users})
    /\ UNCHANGED <<users, groups, tasks, nextTaskId, now, inflight, load>>

\* Variant: loose comparison, so that the string "1" passes as the number 1.
InvalidRoleLoose(role) == role.t = "undefined" \/ role.n \notin {ROLE_ADMIN, ROLE_USER}

\* if (role !== 1 && role !== 2)
InvalidRole(role) == role # JNum(ROLE_ADMIN) /\ role # JNum(ROLE_USER)

\* Variant: the update replaces the whole document by { role }.
SetRoleOverwrite(userId, role) ==
    IF userId \in DOMAIN users
    THEN [users EXCEPT ![userId] =
            [username |-> "", email |-> "", password |-> BcryptHash("", ""),
             role |-> role.n]]
    ELSE users

\* User.findByIdAndUpdate(userId, { role }, { new: true, select: '-password' })
SetRole(userId, role) ==
    IF userId \in DOMAIN users
    THEN [users EXCEPT ![userId].role = role.n]
    ELSE users

UpdateRole(userId, role) ==
    /\ AcceptAtomic
    /\ served' = served + 1
    /\ IF InvalidRole(role)
       THEN /\ resp' = Json("updateRole", 400, FALSE, "Rol invalido", <<>>)
            /\ UNCHANGED users
       ELSE /\ users' = SetRole(userId, role)
            /\ resp' = IF userId \in DOMAIN users
                       THEN Json("updateRole", 200, TRUE,
                                 "Rol de usuario actualizado exitosamente",
                                 [id |-> userId, username |-> users[userId].username,
                                  email |-> users[userId].email, role |-> role.n])
                       ELSE Json("updateRole", 404, FALSE, "Usuario no encontrado", <<>>)
    /\ UNCHANGED <<groups, tasks, nextTaskId, now, inflight, load>>

(* --------------------- POST /groups, GET /groups ----------------------- *)
\* const existingGroup = await Group.findOne({ name });
CreateGroupFindName(p, name, createdBy, members) ==
    /\ Accept(p)
    /\ served' = served + 1
    /\ IF FindGroupByName(name) # {}
       THEN /\ resp' = Json("createGroup", 400, FALSE, "El nombre del grupo ya esta en uso", <<>>)
            /\ UNCHANGED inflight
       ELSE /\ inflight' = [inflight EXCEPT ![p] =
                    [op |-> "createGroup", pc |-> "save",
                     args |-> [name |-> name, createdBy |-> createdBy, members |-> members],
                     loc |-> <<>>]]
            /\ resp' = NoResp
    /\ UNCHANGED <<users, groups, tasks, nextTaskId, now, load>>

\* newGroup.save(): the insert, refused by the unique index on a duplicate name.
InsertGroup(doc) ==
    IF UniqueGroupViolation(doc) THEN groups ELSE Append(groups, doc)

\* const newGroup = new Group({ name, createdBy, members }); await newGroup.save();
CreateGroupSave(p) ==
    /\ inflight[p].op = "createGroup" /\ inflight[p].pc = "save"
    /\ LET doc == inflight[p].args IN
       /\ groups' = InsertGroup(doc)
       /\ resp' = IF UniqueGroupViolation(doc)
                  THEN Json("createGroup", 500, FALSE, "Error al crear el grupo", <<>>)
                  ELSE Json("createGroup", 200, TRUE, "Grupo creado exitosamente",
                            [id |-> Len(groups) + 1, name |-> doc.name,
                             createdBy |-> doc.createdBy, members |-> doc.members])
    /\ inflight' = [inflight EXCEPT ![p] = Idle]
    /\ UNCHANGED <<users, tasks, nextTaskId, now, served, load>>

CreateGroup ==
    \/ \E p \in Procs, input \in GroupInputs :
          CreateGroupFindName(p, input.name, input.createdBy, input.members)
    \/ \E p \in Procs : CreateGroupSave(p)

GetGroups ==
    /\ AcceptAtomic
    /\ served' = served + 1
    /\ resp' = Json("getGroups", 200, TRUE, "", {PopulateGroupDoc(g) : g \in DOMAIN groups})
    /\ UNCHANGED <<users, groups, tasks, nextTaskId, now, inflight, load>>

GetGroup(groupId) ==
    /\ AcceptAtomic
    /\ served' = served + 1
    /\ resp' = IF groupId \in DOMAIN groups
               THEN Json("getGroup", 200, TRUE, "", PopulateGroupDoc(groupId))
               ELSE Json("getGroup", 404, FALSE, "Grupo no encontrado", <<>>)
    /\ UNCHANGED <<users, groups, tasks, nextTaskId, now, inflight, load>>

GetGroupTasks(groupId) ==
    /\ AcceptAtomic
    /\ served' = served + 1
    /\ resp' = Json("getGroupTasks", 200, TRUE, "",
                    PopulateTasks(FindTasksByGroupIn({groupId})))
    /\ UNCHANGED <<users, groups, tasks, nextTaskId, now, inflight, load>>

GetAdminTasks ==
    /\ AcceptAtomic
    /\ served' = served + 1
    /\ resp' = Json("getAdminTasks", 200, TRUE, "", PopulateTasks(FindAllTasks))
    /\ UNCHANGED <<users, groups, tasks, nextTaskId, now, inflight, load>>

(* ----------------------------- POST /tasks ----------------------------- *)
\* new Task({ ..., lastUpdated: new Date() })
CreateTaskStamp(p, input) ==
    /\ Accept(p)
    /\ nextTaskId + Cardinality({q \in Procs : inflight[q].op = "createTask"}) <= MaxTasks
    /\ served' = served + 1
    /\ \E t \in ClockReadings :
         /\ now' = t
         /\ inflight' = [inflight EXCEPT ![p] =
                [op |-> "createTask", pc |-> "save", args |-> input,
                 loc |-> [lastUpdated |-> t]]]
    /\ resp' = NoResp
    /\ UNCHANGED <<users, groups, tasks, nextTaskId, load>>

NewTask(input, stamp) ==
    [name |-> input.name, description |-> input.description,
     dueDate |-> input.dueDate, category |-> input.category,
     status |-> input.status, group |-> input.group,
     assignedTo |-> input.assignedTo, createdBy |-> input.createdBy,
     lastUpdated |-> stamp]

InsertTask(id, doc) ==
    [t \in DOMAIN tasks \cup {id} |-> IF t = id THEN doc ELSE tasks[t]]

\* await newTask.save();
CreateTaskSave(p) ==
    /\ inflight[p].op = "createTask" /\ inflight[p].pc = "save"
    /\ LET doc == NewTask(inflight[p].args, inflight[p].loc.lastUpdated) IN
       /\ tasks' = InsertTask(nextTaskId, doc)
       /\ resp' = Json("createTask", 200, TRUE, "Tarea creada exitosamente",
                       {[id |-> nextTaskId, doc |-> doc]})
    /\ nextTaskId' = nextTaskId + 1
    /\ inflight' = [inflight EXCEPT ![p] = Idle]
    /\ UNCHANGED <<users, groups, now, served, load>>

CreateTask ==
    \/ \E p \in Procs, input \in TaskInputs : CreateTaskStamp(p, input)
    \/ \E p \in Procs : CreateTaskSave(p)

(* ----------------------- GET /users/:userId/tasks ---------------------- *)
\* Variant: the two role constants confused.
IsAdminSwapped(user) == user.role = ROLE_USER

\* if (user.role === 1)
IsAdmin(user) == user.role = ROLE_ADMIN

\* const user = await User.findById(userId);
GetUserTasksFindUser(p, userId) ==
    /\ Accept(p)
    /\ served' = served + 1
    /\ IF userId \notin DOMAIN users
       THEN /\ resp' = Json("getUserTasks", 404, FALSE, "Usuario no encontrado", <<>>)
            /\ UNCHANGED inflight
       ELSE /\ inflight' = [inflight EXCEPT ![p] =
                    [op |-> "getUserTasks",
                     pc |-> IF IsAdmin(users[userId]) THEN "findAll" ELSE "findGroups",
                     args |-> [userId |-> userId],
                     loc |-> [groupIds |-> {}]]]
            /\ resp' = NoResp
    /\ UNCHANGED <<users, groups, tasks, nextTaskId, now, load>>

\* if (user.role === 1) tasks = await Task.find({})
GetUserTasksFindAll(p) ==
    /\ inflight[p].op = "getUserTasks" /\ inflight[p].pc = "findAll"
    /\ resp' = Json("getUserTasks", 200, TRUE, "", PopulateTasks(FindAllTasks))
    /\ inflight' = [inflight EXCEPT ![p] = Idle]
    /\ UNCHANGED <<users, groups, tasks, nextTaskId, now, served, load>>

\* const groups = await Group.find({ members: userId });
GetUserTasksFindGroups(p) ==
    /\ inflight[p].op = "getUserTasks" /\ inflight[p].pc = "findGroups"
    /\ inflight' = [inflight EXCEPT ![p].pc = "findTasks",
                                    ![p].loc.groupIds = FindGroupsByMember(inflight[p].args.userId)]
    /\ resp' = NoResp
    /\ UNCHANGED <<users, groups, tasks, nextTaskId, now, served, load>>

\* tasks = await Task.find({ group: { $in: groupIds } })
GetUserTasksFindTasks(p) ==
    /\ inflight[p].op = "getUserTasks" /\ inflight[p].pc = "findTasks"
    /\ resp' = Json("getUserTasks", 200, TRUE, "",
                    PopulateTasks(FindTasksByGroupIn(inflight[p].loc.groupIds)))
    /\ inflight' = [inflight EXCEPT ![p] = Idle]
    /\ UNCHANGED <<users, groups, tasks, nextTaskId, now, served, load>>

GetUserTasks ==
    \/ \E p \in Procs, userId \in UserIds : GetUserTasksFindUser(p, userId)
    \/ \E p \in Procs : GetUserTasksFindAll(p)
    \/ \E p \in Procs : GetUserTasksFindGroups(p)
    \/ \E p \in Procs : GetUserTasksFindTasks(p)

(* ---------------------- GET /users/:userId/groups ---------------------- *)
GetUserGroupsFindUser(p, userId) ==
    /\ Accept(p)
    /\ served' = served + 1
    /\ IF userId \notin DOMAIN users
       THEN /\ resp' = Json("getUserGroups", 404, FALSE, "Usuario no encontrado", <<>>)
            /\ UNCHANGED inflight
       ELSE /\ inflight' = [inflight EXCEPT ![p] =
                    [op |-> "getUserGroups", pc |-> "find",
                     args |-> [userId |-> userId],
                     loc |-> [admin |-> IsAdmin(users[userId])]]]
            /\ resp' = NoResp
    /\ UNCHANGED <<users, groups, tasks, nextTaskId, now, load>>

\* Group.find({}).lean() for role 1, Group.find({ members: userId }).lean() otherwise
GetUserGroupsFind(p) ==
    /\ inflight[p].op = "getUserGroups" /\ inflight[p].pc = "find"
    /\ resp' = Json("getUserGroups", 200, TRUE, "",
                    {LeanGroup(g) : g \in
                        IF inflight[p].loc.admin
                        THEN DOMAIN groups
                        ELSE FindGroupsByMember(inflight[p].args.userId)})
    /\ inflight' = [inflight EXCEPT ![p] = Idle]
    /\ UNCHANGED <<users, groups, tasks, nextTaskId, now, served, load>>

GetUserGroups ==
    \/ \E p \in Procs, userId \in UserIds : GetUserGroupsFindUser(p, userId)
    \/ \E p \in Procs : GetUserGroupsFind(p)

(* ------------------ PUT /tasks/:taskId, DELETE /tasks/:taskId ----------- *)
\* Variant: a lastUpdated supplied by the caller is kept.
SetLastUpdatedKeepsCaller(taskData, stamp) ==
    [f \in DOMAIN taskData \cup {"lastUpdated"} |->
        IF f \in DOMAIN taskData THEN taskData[f] ELSE stamp]

\* taskData.lastUpdated = new Date();
SetLastUpdated(taskData, stamp) ==
    [f \in DOMAIN taskData \cup {"lastUpdated"} |->
        IF f = "lastUpdated" THEN stamp ELSE taskData[f]]

UpdateTaskStamp(p, taskId, body) ==
    /\ Accept(p)
    /\ served' = served + 1
    /\ \E t \in ClockReadings :
         /\ now' = t
         /\ inflight' = [inflight EXCEPT ![p] =
                [op |-> "updateTask", pc |-> "write",
                 args |-> [taskId |-> taskId],
                 loc |-> [taskData |-> SetLastUpdated(body, t)]]]
    /\ resp' = NoResp
    /\ UNCHANGED <<users, groups, tasks, nextTaskId, load>>

\* The update document applied to one Task: $set of the schema's paths only.
ApplyUpdate(doc, taskData) ==
    [f \in DOMAIN doc |->
        IF f \in DOMAIN taskData /\ f \in TaskPaths THEN taskData[f] ELSE doc[f]]

\* Variant: upsert, which creates the task when the id resolves to none.
FindByIdAndUpsert(taskId, taskData) ==
    [t \in DOMAIN tasks \cup {taskId} |->
        ApplyUpdate(IF t \in DOMAIN tasks THEN tasks[t]
                    ELSE NewTask([name |-> "", description |-> "", dueDate |-> 0,
                                  category |-> "", status |-> "", group |-> Null,
                                  assignedTo |-> Null, createdBy |-> Null], 0),
                    IF t = taskId THEN taskData ELSE <<>>)]

\* Task.findByIdAndUpdate(taskId, taskData, { new: true })
FindByIdAndUpdate(taskId, taskData) ==
    IF taskId \in DOMAIN tasks
    THEN [tasks EXCEPT ![taskId] = ApplyUpdate(tasks[taskId], taskData)]
    ELSE tasks

UpdateTaskWrite(p) ==
    /\ inflight[p].op = "updateTask" /\ inflight[p].pc = "write"
    /\ LET taskId == inflight[p].args.taskId
           taskData == inflight[p].loc.taskData
       IN /\ tasks' = FindByIdAndUpdate(taskId, taskData)
          /\ resp' = Json("updateTask", 200, TRUE, "Tarea actualizada",
                          IF taskId \in DOMAIN tasks
                          THEN {[id |-> taskId, doc |-> ApplyUpdate(tasks[taskId], taskData)]}
                          ELSE {})
    /\ inflight' = [inflight EXCEPT ![p] = Idle]
    /\ UNCHANGED <<users, groups, nextTaskId, now, served, load>>

UpdateTask ==
    \/ \E p \in Procs, taskId \in TaskIds, body \in TaskUpdates :
          UpdateTaskStamp(p, taskId, body)
    \/ \E p \in Procs : UpdateTaskWrite(p)

\* Variant: the filter is ignored and the first task found is deleted.
FindOneAndDeleteAny(taskId) ==
    IF DOMAIN tasks = {} THEN tasks
    ELSE [t \in DOMAIN tasks \ {CHOOSE m \in DOMAIN tasks : \A n \in DOMAIN tasks : m <= n} |->
            tasks[t]]

\* Task.findByIdAndDelete(taskId)
FindByIdAndDelete(taskId) ==
    [t \in DOMAIN tasks \ {taskId} |-> tasks[t]]

DeleteTask(taskId) ==
    /\ AcceptAtomic
    /\ served' = served + 1
    /\ tasks' = FindByIdAndDelete(taskId)
    /\ resp' = Json("deleteTask", 200, TRUE, "Tarea eliminada", <<>>)
    /\ UNCHANGED <<users, groups, nextTaskId, now, inflight, load>>

(* ----------------------- GET /prueba, /favicon.ico --------------------- *)
Prueba ==
    /\ AcceptAtomic
    /\ served' = served + 1
    /\ resp' = Json("prueba", 200, TRUE, "Prueba exitosa", <<>>)
    /\ UNCHANGED <<users, groups, tasks, nextTaskId, now, inflight, load>>

Favicon ==
    /\ AcceptAtomic
    /\ served' = served + 1
    /\ resp' = Json("favicon", 204, FALSE, "", <<>>)
    /\ UNCHANGED <<users, groups, tasks, nextTaskId, now, inflight, load>>

(* ------------------------------- Next ---------------------------------- *)
\* The handlers that write to storage, and the task listing of a user.
Next ==
    \/ Register
    \/ \E userId \in UserIds, role \in RoleInputs : UpdateRole(userId, role)
    \/ CreateGroup
    \/ CreateTask
    \/ GetUserTasks
    \/ UpdateTask
    \/ \E taskId \in TaskIds : DeleteTask(taskId)

\* Every route of the server.
NextAll ==
    \/ Next
    \/ \E username \in Usernames, password \in LoginPasswords : Login(username, password)
    \/ Logout
    \/ GetUsers
    \/ GetGroups
    \/ \E groupId \in GroupIds : GetGroup(groupId)
    \/ \E groupId \in GroupIds : GetGroupTasks(groupId)
    \/ GetAdminTasks
    \/ GetUserGroups
    \/ Prueba
    \/ Favicon

Spec == Init /\ [][Next]_vars

SpecSerial == InitSerial /\ [][Next]_vars

SpecAll == Init /\ [][NextAll]_vars

(* ============================ properties =============================== *)
ReturnedIds(r) == {x.id : x \in r.data}

\* The tasks of the groups that list user U among their members.
TasksOfGroupsOf(U) ==
    {t \in DOMAIN tasks :
        \E g \in DOMAIN groups : tasks[t].group = g /\ U \in groups[g].members}

RegisterConflict(r) == r.route = "register" /\ r.status = 400 /\ ~r.success

Ok(r) == r.status = 200 /\ r.success

\* C1: under any interleaving of concurrent POST /register and POST /groups
\* requests, no two stored users share a username or an email and no two
\* stored groups share a name; of two registrations that both passed the
\* pre-check with one username, the unique index lets at most one insert in.
C1_UniqueKeys ==
    /\ \A i, j \in DOMAIN users :
          i # j => /\ users[i].username # users[j].username
                   /\ users[i].email # users[j].email
    /\ \A g, h \in DOMAIN groups : g # h => groups[g].name # groups[h].name

\* A registration that passed both pre-checks was refused by the index.
C1_Witness ==
    /\ resp.route = "register" /\ resp.status = 500
    /\ Len(users) >= 1

\* C2: with requests handled one after another, a registration whose username
\* is stored fails with Conflict (400, success false) whatever its email, one
\* with a new username and a stored email fails with Conflict too, both leave
\* the users unchanged, and one with a fresh username and a fresh email
\* succeeds and adds exactly one user.
C2_RegisterOneAfterAnother ==
    [][\A p \in Procs :
        /\ (/\ served' = served + 1 /\ IsIdle(p)
            /\ resp'.route = "register" \/ inflight'[p].op = "register") =>
           \A username \in Usernames, email \in Emails,
              password \in RegisterPasswords, role \in RegisterRoleInputs :
             RegisterFindUsername(p, username, email, password, role) =>
                /\ users' = users
                /\ IF \E i \in DOMAIN users : users[i].username = username
                   THEN RegisterConflict(resp') /\ inflight'[p] = Idle
                   ELSE inflight'[p].op = "register"
        /\ RegisterFindEmail(p) =>
                /\ users' = users
                /\ IF \E i \in DOMAIN users : users[i].email = inflight[p].args.email
                   THEN RegisterConflict(resp') /\ inflight'[p] = Idle
                   ELSE inflight'[p].op = "register"
        /\ RegisterSave(p) =>
                /\ Ok(resp')
                /\ Len(users') = Len(users) + 1
                /\ \A i \in DOMAIN users : users'[i] = users[i]
                /\ users'[Len(users')].username = inflight[p].args.username
                /\ users'[Len(users')].email = inflight[p].args.email
                /\ inflight'[p] = Idle]_vars

\* A new username with the email of a stored user was refused.
C2_Witness ==
    /\ RegisterConflict(resp)
    /\ resp.message = "El correo electronico ya esta en uso"
    /\ Len(users) = 1

\* C3: a PUT /users/:userId/role whose role is anything but the number 1 or 2
\* fails with status 400 and leaves storage as it was, for every target id.
C3_InvalidRoleRejected ==
    [][resp'.route = "updateRole" =>
       \A userId \in UserIds, role \in RoleInputs :
        (role \notin {JNum(1), JNum(2)} /\ UpdateRole(userId, role)) =>
            /\ resp'.status = 400 /\ ~resp'.success
            /\ users' = users /\ groups' = groups /\ tasks' = tasks]_vars

\* An invalid role was refused while a user was stored.
C3_Witness ==
    /\ resp.route = "updateRole" /\ resp.status = 400
    /\ Len(users) >= 1

\* C4: for a stored user U with role 2, GET /users/:U/tasks returns exactly the
\* stored tasks whose group lists U among its members: no task of another group
\* and no task without a group.
C4_MemberSeesGroupTasks ==
    [][\A p \in Procs :
        ((GetUserTasksFindAll(p) \/ GetUserTasksFindTasks(p))
            /\ users[inflight[p].args.userId].role = ROLE_USER) =>
            /\ Ok(resp')
            /\ ReturnedIds(resp') = TasksOfGroupsOf(inflight[p].args.userId)]_vars

\* A member got some task and was denied another one.
C4_Witness ==
    /\ resp.route = "getUserTasks" /\ Ok(resp)
    /\ \A i \in DOMAIN users : users[i].role = ROLE_USER
    /\ ReturnedIds(resp) # {}
    /\ DOMAIN tasks \ ReturnedIds(resp) # {}

\* C5: for a stored user U with role 1, GET /users/:U/tasks returns every
\* stored task, those without a group and those of groups U is not in included.
C5_AdminSeesAllTasks ==
    [][\A p \in Procs :
        ((GetUserTasksFindAll(p) \/ GetUserTasksFindTasks(p))
            /\ users[inflight[p].args.userId].role = ROLE_ADMIN) =>
            /\ Ok(resp')
            /\ ReturnedIds(resp') = DOMAIN tasks]_vars

\* A listing that holds a task without a group.
C5_Witness ==
    /\ resp.route = "getUserTasks" /\ Ok(resp)
    /\ \E t \in ReturnedIds(resp) : t \in DOMAIN tasks /\ tasks[t].group = Null

\* C6: a PUT /tasks/:taskId on a stored task changes the fields of the body and
\* lastUpdated only: the other fields and the other tasks keep their values,
\* and lastUpdated becomes the time of the request, not before the previous
\* lastUpdated, even when the body carries a lastUpdated of its own.
C6_UpdateChangesSuppliedFields ==
    [][\A p \in Procs :
        /\ (served' = served + 1 /\ IsIdle(p) /\ inflight'[p].op = "updateTask") =>
           \A taskId \in TaskIds, body \in TaskUpdates :
             UpdateTaskStamp(p, taskId, body) =>
                /\ tasks' = tasks
                /\ inflight'[p].loc.taskData.lastUpdated = now'
                /\ \A f \in DOMAIN body \ {"lastUpdated"} :
                      inflight'[p].loc.taskData[f] = body[f]
                /\ DOMAIN inflight'[p].loc.taskData = DOMAIN body \cup {"lastUpdated"}
        /\ (UpdateTaskWrite(p) /\ inflight[p].args.taskId \in DOMAIN tasks) =>
             LET id == inflight[p].args.taskId
                 body == inflight[p].loc.taskData
             IN /\ DOMAIN tasks' = DOMAIN tasks
                /\ \A t \in DOMAIN tasks \ {id} : tasks'[t] = tasks[t]
                /\ \A f \in TaskPaths \ {"lastUpdated"} :
                      tasks'[id][f] = IF f \in DOMAIN body THEN body[f] ELSE tasks[id][f]
                /\ tasks'[id].lastUpdated = now
                /\ tasks'[id].lastUpdated >= tasks[id].lastUpdated
                /\ users' = users /\ groups' = groups]_vars

\* C6 (as amended): a PUT /tasks/:taskId on a stored task changes the fields of
\* the body and lastUpdated only: the other fields and the other tasks keep
\* their values, and lastUpdated becomes the time the request read before it
\* issued the write, whatever lastUpdated the body carries; that time is not
\* before the lastUpdated any task had when it was read.
C6_UpdateStampsRequestTime ==
    [][\A p \in Procs :
        /\ (served' = served + 1 /\ IsIdle(p) /\ inflight'[p].op = "updateTask") =>
           \A taskId \in TaskIds, body \in TaskUpdates :
             UpdateTaskStamp(p, taskId, body) =>
                /\ tasks' = tasks
                /\ inflight'[p].loc.taskData.lastUpdated = now'
                /\ \A t \in DOMAIN tasks : now' >= tasks[t].lastUpdated
                /\ \A f \in DOMAIN body \ {"lastUpdated"} :
                      inflight'[p].loc.taskData[f] = body[f]
                /\ DOMAIN inflight'[p].loc.taskData = DOMAIN body \cup {"lastUpdated"}
        /\ (UpdateTaskWrite(p) /\ inflight[p].args.taskId \in DOMAIN tasks) =>
             LET id == inflight[p].args.taskId
                 body == inflight[p].loc.taskData
             IN /\ DOMAIN tasks' = DOMAIN tasks
                /\ \A t \in DOMAIN tasks \ {id} : tasks'[t] = tasks[t]
                /\ \A f \in TaskPaths \ {"lastUpdated"} :
                      tasks'[id][f] = IF f \in DOMAIN body THEN body[f] ELSE tasks[id][f]
                /\ tasks'[id].lastUpdated = body.lastUpdated
                /\ users' = users /\ groups' = groups]_vars

\* An update whose body carried lastUpdated 0 left the status alone and
\* stamped the task, with another task stored.
C6_Witness ==
    /\ resp.route = "updateTask"
    /\ \E x \in resp.data :
          /\ x.doc.name = "n2" /\ x.doc.status = "todo"
          /\ x.doc.lastUpdated >= 1
    /\ Cardinality(DOMAIN tasks) >= 2

\* C7: DELETE /tasks/:taskId answers success whether or not the id resolves; it
\* removes that task and no other, a repeated call changes nothing, and an id
\* once removed does not come back.
C7_DeleteTwiceAsOnce ==
    [][/\ resp'.route = "deleteTask" =>
          \A taskId \in TaskIds :
            DeleteTask(taskId) =>
                /\ Ok(resp')
                /\ DOMAIN tasks' = DOMAIN tasks \ {taskId}
                /\ \A t \in DOMAIN tasks' : tasks'[t] = tasks[t]
                /\ taskId \notin DOMAIN tasks => tasks' = tasks
                /\ users' = users /\ groups' = groups
       /\ \A t \in 1..(nextTaskId - 1) :
            t \notin DOMAIN tasks => t \notin DOMAIN tasks']_vars

\* A delete answered after the only task created had been removed.
C7_Witness ==
    /\ resp.route = "deleteTask" /\ Ok(resp)
    /\ nextTaskId = 2 /\ DOMAIN tasks = {}
    /\ served >= 3

\* C8: every stored role is 1 or 2: POST /register stores role 2 whatever role
\* the body carries, and a role changes only by a PUT /users/:userId/role
\* that stores 1 or 2.
C8_RolesAdminOrUser ==
    /\ [](\A i \in DOMAIN users : users[i].role \in {1, 2})
    /\ [][/\ \A i \in DOMAIN users' \ DOMAIN users :
               /\ users'[i].role = 2
               /\ \E p \in Procs : RegisterSave(p)
          /\ \A i \in DOMAIN users \cap DOMAIN users' :
               users'[i].role # users[i].role =>
                  \E role \in {JNum(1), JNum(2)} :
                      UpdateRole(i, role) /\ users'[i].role = role.n]_vars

\* An administrator and a plain user are stored.
C8_Witness ==
    \E i, j \in DOMAIN users :
        users[i].role = ROLE_ADMIN /\ users[j].role = ROLE_USER

\* C9: a PUT /tasks/:taskId whose id resolves to no stored task answers success
\* with a null task, creates no task and changes no stored task.
C9_UpdateMissingTask ==
    [][\A p \in Procs :
        /\ (served' = served + 1 /\ IsIdle(p) /\ inflight'[p].op = "updateTask") =>
           \A taskId \in TaskIds, body \in TaskUpdates :
             UpdateTaskStamp(p, taskId, body) => tasks' = tasks
        /\ (UpdateTaskWrite(p) /\ inflight[p].args.taskId \notin DOMAIN tasks) =>
                /\ resp'.route = "updateTask" /\ Ok(resp')
                /\ resp'.data = {}
                /\ tasks' = tasks
                /\ nextTaskId' = nextTaskId]_vars

\* An update answered with a null task while a task was stored.
C9_Witness ==
    /\ resp.route = "updateTask" /\ Ok(resp)
    /\ resp.data = {}
    /\ DOMAIN tasks # {}

\* C10: across the requests to every endpoint, a stored user is never removed
\* and keeps its username, email and password, and a stored group is never
\* removed and keeps its name, creator and members.
C10_UsersAndGroupsOnlyGrow ==
    [][/\ Len(users') >= Len(users)
       /\ \A i \in DOMAIN users :
            /\ users'[i].username = users[i].username
            /\ users'[i].email = users[i].email
            /\ users'[i].password = users[i].password
       /\ Len(groups') >= Len(groups)
       /\ \A g \in DOMAIN groups : groups'[g] = groups[g]]_vars

\* A user whose role was changed, with a group stored.
C10_Witness ==
    /\ \E i \in DOMAIN users : users[i].role = ROLE_ADMIN
    /\ Len(groups) >= 1

====
